---- MODULE Spec2Model ----
(***************************************************************************)
(* next-csrf: the setup and csrf middlewares (middleware/setup.ts,          *)
(* middleware/csrf.ts), the cookie helpers they use and the client-side     *)
(* cookie jar the two cookies live in.                                      *)
(*                                                                          *)
(* Strings that cross the wire are modelled as terms:                       *)
(*   - a string without signature is [kind, id, hsalt, hsec]:               *)
(*       "secret"  the secret string number id (0: a string the client      *)
(*                 chose itself, ids >= 1: outputs of secretSync)           *)
(*       "token"   salt(id) + "-" + hash(salt(hsalt) + "-" + secret(hsec))  *)
(*       "plain"   any other non-empty string, "empty" the empty string     *)
(*   - a cookie value is [val, sig, enc]: val + "." + mac(sig.of, sig.key)  *)
(*     when sig.present, and enc says the value is in its URI-encoded form. *)
(* The random generator of the csrf library is modelled as a source of      *)
(* fresh numbers (rnd): no two draws return the same value.                 *)
(***************************************************************************)
EXTENDS Naturals, Integers, Sequences, FiniteSets, TLC

VARIABLES
  cfg,     \* the options of the instance, as nextCsrf hands them to setup and csrf
  jar,     \* the cookies the client holds, by name
  rnd,     \* the number of values drawn from the random generator so far
  issued,  \* the token cookie values the client received, each with its secret
  log,     \* the successful validations of csrf, in order
  call,    \* the invocation of a wrapped handler in progress
  inflight \* the responses on their way to the client while it sends other requests

vars == <<cfg, jar, rnd, issued, log, call, inflight>>

\* Number of values the random generator may hand out in one behaviour.
MaxRnd == 5

\* Number of responses that may be on their way to the client at a time.
MaxInflight == 2

(***************************** strings **************************************)

Str(kind, id, hsalt, hsec) == [kind |-> kind, id |-> id, hsalt |-> hsalt, hsec |-> hsec]

EmptyStr == Str("empty", 0, 0, 0)
SecretStr(n) == Str("secret", n, 0, 0)
TokenStr(salt, hsalt, hsec) == Str("token", salt, hsalt, hsec)
PlainStr == Str("plain", 0, 0, 0)

NoKey == "null"
NoSig == [present |-> FALSE, of |-> EmptyStr, key |-> NoKey]

\* A string that carries no signature part.
Raw(s) == [val |-> s, sig |-> NoSig, enc |-> FALSE]

\* JavaScript undefined / null (a missing cookie) and unsign's false.
Undefined == Raw(Str("undefined", 0, 0, 0))
Null == Raw(Str("null", 0, 0, 0))
Invalid == Raw(Str("false", 0, 0, 0))

\* !x in JavaScript: undefined, null, false and the empty string.
Falsy(v) == v \in {Undefined, Null, Invalid, Raw(EmptyStr)}

(************************ cookie-signature *********************************)

\* sign(val, secret): val + '.' + base64(hmac-sha256(val, secret)).
sign(val, key) ==
  [val |-> val.val, sig |-> [present |-> TRUE, of |-> val.val, key |-> key], enc |-> FALSE]

\* unsign that takes a signature made under any key.
unsignAnyKey(input, key) ==
  IF /\ input.sig.present
     /\ ~input.enc
     /\ input.sig.of = input.val
  THEN Raw(input.val)
  ELSE Invalid

\* unsign(input, secret): the part before the last '.', when signing it again
\* under secret gives input back; false otherwise.
unsign(input, key) ==
  IF /\ input.sig.present
     /\ ~input.enc
     /\ input.sig.of = input.val
     /\ input.sig.key = key
  THEN Raw(input.val)
  ELSE Invalid

(******************************* csrf (Tokens) ******************************)

\* createToken.secretSync(): a fresh random secret.
secretSync(r) == Raw(SecretStr(r))

\* createToken.create(secret): salt + '-' + hash(salt + '-' + secret), fresh salt.
create(secret, r) == Raw(TokenStr(r, r, secret.val.id))

\* createToken.verify(secret, token).
verify(secret, token) ==
  /\ ~Falsy(secret)
  /\ ~Falsy(token)
  /\ secret.val.kind = "secret"
  /\ ~secret.sig.present
  /\ ~secret.enc
  /\ token.val.kind = "token"
  /\ ~token.sig.present
  /\ ~token.enc
  /\ token.val.hsalt = token.val.id
  /\ token.val.hsec = secret.val.id

(********************************* cookie ***********************************)

CookieNames == {"csrfSecret", "csrfsecret", "XSRF-TOKEN", "MY-CSRF-TOKEN"}

NoCookies == [n \in CookieNames |-> Undefined]

\* encodeURIComponent: the base64 of a signature holds '+' and '/', which are
\* escaped; secrets and unsigned tokens are base64url and stay as they are.
encode(v) == [v EXCEPT !.enc = v.sig.present]

\* decodeURIComponent.
decode(v) == IF v = Undefined THEN v ELSE [v EXCEPT !.enc = FALSE]

\* serialize(name, value, options): one Set-Cookie directive.
serialize(name, value, options) ==
  [name |-> name, value |-> encode(value), opts |-> options]

\* parse(header): the object of the decoded cookie values.
parse(header) == [n \in CookieNames |-> decode(header[n])]

\* String.prototype.toLowerCase on the cookie names in use.
toLowerCase(name) ==
  CASE name = "csrfSecret" -> "csrfsecret"
    [] name = "XSRF-TOKEN" -> "xsrf-token"
    [] name = "MY-CSRF-TOKEN" -> "my-csrf-token"
    [] OTHER -> name

\* getCookie(req, name): null without a cookie header or without the cookie.
getCookie(req, name) ==
  IF req.hasCookie
  THEN IF name \in CookieNames /\ parse(req.cookie)[name] # Undefined
       THEN parse(req.cookie)[name]
       ELSE Null
  ELSE Null

\* getSecret(req, tokenKey).
getSecret(req, tokenKey) == getCookie(req, toLowerCase(tokenKey))

(****************************** configuration *******************************)

Unset == "unset"

\* defaultOptions (and cookieDefaultOptions, named "default" here).
defaultOptions ==
  [tokenKey |-> "XSRF-TOKEN",
   csrfErrorMessage |-> "Invalid CSRF token",
   ignoredMethods |-> {"GET", "HEAD", "OPTIONS"},
   cookieOptions |-> "default"]

\* The userOptions the instances of this model are built from.
UserOptions ==
  { [secret |-> NoKey, tokenKey |-> Unset, csrfErrorMessage |-> Unset,
     ignoredMethods |-> {Unset}, cookieOptions |-> Unset],
    [secret |-> "k1", tokenKey |-> "XSRF-TOKEN", csrfErrorMessage |-> Unset,
     ignoredMethods |-> {Unset}, cookieOptions |-> Unset],
    [secret |-> "k1", tokenKey |-> "MY-CSRF-TOKEN", csrfErrorMessage |-> "Custom CSRF error",
     ignoredMethods |-> {"GET", "POST"}, cookieOptions |-> "strict"] }

\* nextCsrf(userOptions): {...defaultOptions, ...userOptions}, and the secret
\* taken from userOptions alone.
nextCsrf(userOptions) ==
  [tokenKey |-> IF userOptions.tokenKey = Unset
                THEN defaultOptions.tokenKey ELSE userOptions.tokenKey,
   csrfErrorMessage |-> IF userOptions.csrfErrorMessage = Unset
                        THEN defaultOptions.csrfErrorMessage
                        ELSE userOptions.csrfErrorMessage,
   ignoredMethods |-> IF userOptions.ignoredMethods = {Unset}
                      THEN defaultOptions.ignoredMethods
                      ELSE userOptions.ignoredMethods,
   cookieOptions |-> IF userOptions.cookieOptions = Unset
                     THEN defaultOptions.cookieOptions
                     ELSE userOptions.cookieOptions,
   secret |-> userOptions.secret]

(************************* requests and responses ***************************)

\* req.method when it is not a string.
NoMethod == "undefined"

Methods == {"GET", "HEAD", "OPTIONS", "POST", "PUT"}

Req(method, hasCookie, cookie) ==
  [method |-> method, hasCookie |-> hasCookie, cookie |-> cookie]

\* A response nothing was written to: status 0 and body "none" stand for
\* res.status and res.json never called.
NewRes == [setHeaderCalls |-> 0, setCookie |-> <<>>, status |-> 0, body |-> "none"]

\* res.setHeader('Set-Cookie', value): replaces the header.
setHeader(res, value) ==
  [res EXCEPT !.setHeaderCalls = @ + 1, !.setCookie = value]

\* new HttpError(status, message), and any other thrown object: status 0
\* stands for an object without status, message "undefined" for one without
\* message.
HttpError(status, message) == [kind |-> "object", status |-> status, message |-> message]

NoError == [kind |-> "none", status |-> 0, message |-> "none"]

\* throw null, throw undefined, or a promise rejected without a reason.
ThrownNull == [kind |-> "null", status |-> 0, message |-> "undefined"]

\* The TypeError of reading a property of null or undefined.
TypeError == HttpError(0, "Cannot read properties of null")

\* What the wrapped handler may fail with.
HandlerErrors == {HttpError(0, "boom"), HttpError(418, "teapot"), ThrownNull}

\* What the steps between the cookie check and the handler may fail with when
\* something unexpected is raised there (cookie's parse throws the TypeError
\* 'argument str must be a string' on a header that is no string).
StepErrors == {HttpError(0, "argument str must be a string"), HttpError(0, "undefined")}

\* The arguments of a wrapped function: (req, res) of an API route, or the
\* context of getServerSideProps, which holds req and res.
ApiArgs(req) == << [kind |-> "req", req |-> req], [kind |-> "res", req |-> req] >>
ContextArgs(req) == << [kind |-> "context", req |-> req] >>

\* An object read where there is none: it has no method and no headers.
NoReq == Req(NoMethod, FALSE, NoCookies)

\* thrown is what the handler or a step raised, err what the promise of the
\* wrapped function rejected with, result what the handler returned and
\* returned what the wrapped function resolved with.
IdleCall ==
  [mw |-> "none", pc |-> "idle", req |-> Req("GET", FALSE, NoCookies), res |-> NewRes,
   handlerCalls |-> 0, thrownAt |-> "none", outcome |-> "pending", err |-> NoError,
   fromJar |-> FALSE, newSecret |-> FALSE,
   args |-> ApiArgs(Req("GET", FALSE, NoCookies)), wroteTo |-> "none",
   handlerArgs |-> <<>>, thrown |-> NoError, result |-> "none", returned |-> "none"]

(***************************** middleware/csrf.ts ***************************)

\* The token csrf verifies: cookie[tokenKey], replaced by unsign's result when
\* a signing key is configured.
workingToken(c, req) ==
  IF c.secret # NoKey
  THEN unsign(parse(req.cookie)[c.tokenKey], c.secret)
  ELSE parse(req.cookie)[c.tokenKey]

\* csrfCheck without the call of verify.
csrfCheckNoVerify(c, req) ==
  IF req.method = NoMethod THEN "method"
  ELSE IF req.method \in c.ignoredMethods THEN "ignored"
  ELSE IF ~req.hasCookie THEN "cookie"
  ELSE IF Falsy(parse(req.cookie)[c.tokenKey]) THEN "token"
  ELSE IF Falsy(parse(req.cookie)["csrfSecret"]) THEN "secret"
  ELSE IF c.secret # NoKey /\ Falsy(unsign(parse(req.cookie)[c.tokenKey], c.secret))
       THEN "signature"
  ELSE "valid"

\* csrfCheck taking the part before the '.' without comparing the signature.
csrfCheckNoSignature(c, req) ==
  IF req.method = NoMethod THEN "method"
  ELSE IF req.method \in c.ignoredMethods THEN "ignored"
  ELSE IF ~req.hasCookie THEN "cookie"
  ELSE IF Falsy(parse(req.cookie)[c.tokenKey]) THEN "token"
  ELSE IF Falsy(parse(req.cookie)["csrfSecret"]) THEN "secret"
  ELSE IF ~verify(parse(req.cookie)["csrfSecret"], Raw(parse(req.cookie)[c.tokenKey].val))
       THEN "verify"
  ELSE "valid"

\* csrfCheck looking for the cookie header before it looks at the method.
csrfCheckCookieFirst(c, req) ==
  IF req.method = NoMethod THEN "method"
  ELSE IF ~req.hasCookie THEN "cookie"
  ELSE IF req.method \in c.ignoredMethods THEN "ignored"
  ELSE IF Falsy(parse(req.cookie)[c.tokenKey]) THEN "token"
  ELSE IF Falsy(parse(req.cookie)["csrfSecret"]) THEN "secret"
  ELSE IF c.secret # NoKey /\ Falsy(unsign(parse(req.cookie)[c.tokenKey], c.secret))
       THEN "signature"
  ELSE IF ~verify(parse(req.cookie)["csrfSecret"], workingToken(c, req)) THEN "verify"
  ELSE "valid"

\* csrfCheck that lets a request whose method is no string go on to the
\* cookie checks, as one whose method is outside the exempt set.
csrfCheckMethodOptional(c, req) ==
  IF req.method # NoMethod /\ req.method \in c.ignoredMethods THEN "ignored"
  ELSE IF ~req.hasCookie THEN "cookie"
  ELSE IF Falsy(parse(req.cookie)[c.tokenKey]) THEN "token"
  ELSE IF Falsy(parse(req.cookie)["csrfSecret"]) THEN "secret"
  ELSE IF c.secret # NoKey /\ Falsy(unsign(parse(req.cookie)[c.tokenKey], c.secret))
       THEN "signature"
  ELSE IF ~verify(parse(req.cookie)["csrfSecret"], workingToken(c, req)) THEN "verify"
  ELSE "valid"

\* The checks of csrf in the order of the code: the check that throws
\* ("method", "cookie", "token", "secret", "signature", "verify"), "ignored"
\* when the method is exempt and "valid" when every check passed.
csrfCheck(c, req) ==
  IF req.method = NoMethod THEN "method"
  ELSE IF req.method \in c.ignoredMethods THEN "ignored"
  ELSE IF ~req.hasCookie THEN "cookie"
  ELSE IF Falsy(parse(req.cookie)[c.tokenKey]) THEN "token"
  ELSE IF Falsy(parse(req.cookie)["csrfSecret"]) THEN "secret"
  ELSE IF c.secret # NoKey /\ Falsy(unsign(parse(req.cookie)[c.tokenKey], c.secret))
       THEN "signature"
  ELSE IF ~verify(parse(req.cookie)["csrfSecret"], workingToken(c, req)) THEN "verify"
  ELSE "valid"

\* newToken that never signs.
newTokenUnsigned(c, req, r) == create(parse(req.cookie)["csrfSecret"], r)

\* newToken handing the validated token out again instead of creating one.
newTokenReissued(c, req, r) ==
  IF c.secret # NoKey THEN sign(workingToken(c, req), c.secret) ELSE workingToken(c, req)

\* newToken that derives the token from a secret of its own, not from the
\* secret of the request.
newTokenOtherSecret(c, req, r) ==
  IF c.secret # NoKey
  THEN sign(create(secretSync(r), r), c.secret)
  ELSE create(secretSync(r), r)

\* The new token of a validated request: created from the secret of the
\* request and signed when a signing key is configured.
newToken(c, req, r) ==
  IF c.secret # NoKey
  THEN sign(create(parse(req.cookie)["csrfSecret"], r), c.secret)
  ELSE create(parse(req.cookie)["csrfSecret"], r)

\* res.setHeader('Set-Cookie', serialize(tokenKey, newToken, cookieOptions)).
rotate(c, req, res, r) ==
  setHeader(res, <<serialize(c.tokenKey, newToken(c, req, r), c.cookieOptions)>>)

\* catch that answers 500 whatever the error carries.
catchAlways500(res, error) == [res EXCEPT !.status = 500, !.body = error.message]

\* catch that answers with a generic message when the error has none.
catchGenericMessage(res, error) ==
  [res EXCEPT !.status = IF error.status = 0 THEN 500 ELSE error.status,
              !.body = IF error.message = "undefined"
                       THEN "Internal Server Error" ELSE error.message]

\* catch that also clears the secret cookie of the client.
catchClearsSecret(res, error) ==
  [setHeader(res, <<serialize("csrfSecret", Raw(EmptyStr), defaultOptions.cookieOptions)>>)
     EXCEPT !.status = IF error.status = 0 THEN 500 ELSE error.status,
            !.body = error.message]

\* catch that answers on a response without the headers written so far.
catchResetsHeaders(res, error) ==
  [NewRes EXCEPT !.status = IF error.status = 0 THEN 500 ELSE error.status,
                 !.body = error.message]

\* The catch block: res.status(error.status ?? 500).json({message: error.message}).
catch(res, error) ==
  [res EXCEPT !.status = IF error.status = 0 THEN 500 ELSE error.status,
              !.body = error.message]

\* csrf that remembers the tokens it has validated and takes each one once.
csrfSingleUse(req, fromJar) ==
  /\ call.pc = "idle"
  /\ LET seen == \E n \in 1..Len(log) : log[n].presented = req.cookie[cfg.tokenKey]
         at == IF csrfCheck(cfg, req) = "valid" /\ seen THEN "verify" ELSE csrfCheck(cfg, req)
         started == [IdleCall EXCEPT !.mw = "csrf", !.req = req, !.fromJar = fromJar,
                                     !.args = ApiArgs(req)]
     IN CASE at = "ignored" ->
               /\ call' = [started EXCEPT !.pc = "handler", !.handlerCalls = 1,
                                          !.handlerArgs = <<"req", "res">>]
               /\ UNCHANGED <<rnd, log>>
          [] at = "valid" ->
               /\ rnd < MaxRnd
               /\ call' = [started EXCEPT !.pc = "handler", !.handlerCalls = 1,
                                          !.handlerArgs = <<"req", "res">>,
                                          !.wroteTo = "args[1]",
                                          !.res = rotate(cfg, req, NewRes, rnd + 1)]
               /\ rnd' = rnd + 1
               /\ log' = Append(log, [secret |-> parse(req.cookie)["csrfSecret"],
                                      presented |-> req.cookie[cfg.tokenKey],
                                      emitted |-> rotate(cfg, req, NewRes, rnd + 1).setCookie[1].value])
          [] OTHER ->
               /\ call' = [started EXCEPT !.pc = "done", !.thrownAt = at,
                                          !.outcome = "resolved", !.returned = "undefined",
                                          !.thrown = HttpError(403, cfg.csrfErrorMessage),
                                          !.wroteTo = "args[1]",
                                          !.res = catch(NewRes, HttpError(403, cfg.csrfErrorMessage))]
               /\ UNCHANGED <<rnd, log>>
  /\ UNCHANGED <<cfg, inflight, jar, issued>>

\* csrf(handler, options)(req, res), up to the point where it awaits the
\* handler or has answered the request itself.
csrf(req, fromJar) ==
  /\ call.pc = "idle"
  /\ LET at == csrfCheck(cfg, req)
         started == [IdleCall EXCEPT !.mw = "csrf", !.req = req, !.fromJar = fromJar,
                                     !.args = ApiArgs(req)]
     IN CASE at = "ignored" ->
               /\ call' = [started EXCEPT !.pc = "handler", !.handlerCalls = 1,
                                          !.handlerArgs = <<"req", "res">>]
               /\ UNCHANGED <<rnd, log>>
          [] at = "valid" ->
               /\ rnd < MaxRnd
               /\ call' = [started EXCEPT !.pc = "handler", !.handlerCalls = 1,
                                          !.handlerArgs = <<"req", "res">>,
                                          !.wroteTo = "args[1]",
                                          !.res = rotate(cfg, req, NewRes, rnd + 1)]
               /\ rnd' = rnd + 1
               /\ log' = Append(log, [secret |-> parse(req.cookie)["csrfSecret"],
                                      presented |-> req.cookie[cfg.tokenKey],
                                      emitted |-> rotate(cfg, req, NewRes, rnd + 1).setCookie[1].value])
          [] OTHER ->
               /\ call' = [started EXCEPT !.pc = "done", !.thrownAt = at,
                                          !.outcome = "resolved", !.returned = "undefined",
                                          !.thrown = HttpError(403, cfg.csrfErrorMessage),
                                          !.wroteTo = "args[1]",
                                          !.res = catch(NewRes, HttpError(403, cfg.csrfErrorMessage))]
               /\ UNCHANGED <<rnd, log>>
  /\ UNCHANGED <<cfg, inflight, jar, issued>>

\* csrf on a request that passes the method and the cookie header check, when
\* one of the steps after them raises error: the catch block answers.
csrfThrows(req, error) ==
  /\ call.pc = "idle"
  /\ csrfCheck(cfg, req) \notin {"method", "ignored", "cookie"}
  /\ call' = [IdleCall EXCEPT !.mw = "csrf", !.req = req, !.args = ApiArgs(req),
                              !.pc = "done", !.thrownAt = "step", !.thrown = error,
                              !.outcome = "resolved", !.returned = "undefined",
                              !.wroteTo = "args[1]",
                              !.res = catch(NewRes, error)]
  /\ UNCHANGED <<cfg, inflight, jar, rnd, issued, log>>

(**************************** middleware/setup.ts ***************************)

\* getSecret(req, 'csrfSecret') || createToken.secretSync().
setupSecret(req, r) ==
  IF Falsy(getSecret(req, "csrfSecret")) THEN secretSync(r) ELSE getSecret(req, "csrfSecret")

\* The number of random values setupSecret draws.
setupDraws(req) == IF Falsy(getSecret(req, "csrfSecret")) THEN 1 ELSE 0

\* setupToken that never signs.
setupTokenUnsigned(c, req, r) == create(setupSecret(req, r), r + setupDraws(req))

\* The token cookie value of setup: signed when a signing key is configured.
setupToken(c, req, r) ==
  IF c.secret # NoKey
  THEN sign(create(setupSecret(req, r), r + setupDraws(req)), c.secret)
  ELSE create(setupSecret(req, r), r + setupDraws(req))

\* setupCookies with the token directive first.
setupCookiesSwapped(c, req, r) ==
  << serialize(c.tokenKey, setupToken(c, req, r), c.cookieOptions),
     serialize("csrfSecret", setupSecret(req, r), c.cookieOptions) >>

\* The Set-Cookie header value of setup.
setupCookies(c, req, r) ==
  << serialize("csrfSecret", setupSecret(req, r), c.cookieOptions),
     serialize(c.tokenKey, setupToken(c, req, r), c.cookieOptions) >>

\* isApi = args.length > 1.
isApi(args) == Len(args) > 1

\* setupReq that takes args[0] for the request whatever the argument count.
setupReqFirstArg(args) == IF args[1].kind = "req" THEN args[1].req ELSE NoReq

\* The request setup reads: args[0] of two arguments, args[0].req of one.
setupReq(args) ==
  IF isApi(args)
  THEN (IF args[1].kind = "req" THEN args[1].req ELSE NoReq)
  ELSE (IF args[1].kind = "context" THEN args[1].req ELSE NoReq)

\* The response setup writes to: args[1] of two arguments, args[0].res of one.
setupRes(args) == IF isApi(args) THEN "args[1]" ELSE "args[0].res"

\* setup that answers 403 to a request without Cookie header, as csrf does.
setupRejectsNoCookie(args, fromJar) ==
  /\ call.pc = "idle"
  /\ ~setupReq(args).hasCookie
  /\ call' = [IdleCall EXCEPT !.mw = "setup", !.args = args, !.req = setupReq(args),
                              !.fromJar = fromJar,
                              !.pc = "done", !.thrownAt = "cookie",
                              !.outcome = "resolved", !.returned = "undefined",
                              !.wroteTo = setupRes(args),
                              !.res = catch(NewRes, HttpError(403, cfg.csrfErrorMessage))]
  /\ UNCHANGED <<cfg, inflight, jar, rnd, issued, log>>

\* setup that calls the handler without awaiting it: the wrapped function has
\* returned while the handler runs.
setupNoAwait(args, fromJar) ==
  /\ call.pc = "idle"
  /\ rnd + setupDraws(setupReq(args)) + 1 <= MaxRnd
  /\ call' = [IdleCall EXCEPT !.mw = "setup", !.args = args, !.req = setupReq(args),
                              !.fromJar = fromJar,
                              !.pc = "handler", !.handlerCalls = 1,
                              !.handlerArgs = <<"req", "res">>,
                              !.wroteTo = setupRes(args),
                              !.outcome = "resolved", !.returned = "undefined",
                              !.newSecret = (setupDraws(setupReq(args)) = 1),
                              !.res = setHeader(NewRes, setupCookies(cfg, setupReq(args), rnd + 1))]
  /\ rnd' = rnd + setupDraws(setupReq(args)) + 1
  /\ UNCHANGED <<cfg, inflight, jar, issued, log>>

\* setup(handler, options)(...args), up to the point where it awaits the
\* handler, which it calls with the request and the response it took from args.
setup(args, fromJar) ==
  /\ call.pc = "idle"
  /\ rnd + setupDraws(setupReq(args)) + 1 <= MaxRnd
  /\ call' = [IdleCall EXCEPT !.mw = "setup", !.args = args, !.req = setupReq(args),
                              !.fromJar = fromJar,
                              !.pc = "handler", !.handlerCalls = 1,
                              !.handlerArgs = <<"req", "res">>,
                              !.wroteTo = setupRes(args),
                              !.newSecret = (setupDraws(setupReq(args)) = 1),
                              !.res = setHeader(NewRes, setupCookies(cfg, setupReq(args), rnd + 1))]
  /\ rnd' = rnd + setupDraws(setupReq(args)) + 1
  /\ UNCHANGED <<cfg, inflight, jar, issued, log>>

(********************************* handler **********************************)

\* What the wrapped handler returns: an API route handler nothing, a
\* getServerSideProps handler its {props: {}}.
handlerResult(args) == IF isApi(args) THEN "undefined" ELSE "props"

\* The wrapped handler completes; setup and csrf await it and return nothing.
HandlerReturn ==
  /\ call.pc = "handler"
  /\ call' = [call EXCEPT !.pc = "done", !.outcome = "resolved",
                          !.result = handlerResult(call.args), !.returned = "undefined"]
  /\ UNCHANGED <<cfg, inflight, jar, rnd, issued, log>>

\* The catch block of csrf reads error.status: that raises a TypeError when
\* what was thrown is null or undefined.
catchThrows(error) == error.kind = "null"

\* HandlerThrow where setup catches as csrf does: it answers the error.
HandlerThrowCaught(error) ==
  /\ call.pc = "handler"
  /\ ~catchThrows(error)
  /\ call' = [call EXCEPT !.pc = "done", !.thrownAt = "handler", !.thrown = error,
                          !.outcome = "resolved", !.returned = "undefined",
                          !.res = catch(call.res, error)]
  /\ UNCHANGED <<cfg, inflight, jar, rnd, issued, log>>

\* The wrapped handler fails: inside csrf the await is in the try block, so
\* the catch block answers (or fails itself); setup has no try block, so its
\* promise rejects.
HandlerThrow(error) ==
  /\ call.pc = "handler"
  /\ call' = IF call.mw = "csrf"
             THEN IF catchThrows(error)
                  THEN [call EXCEPT !.pc = "done", !.thrownAt = "handler", !.thrown = error,
                                    !.outcome = "rejected", !.err = TypeError]
                  ELSE [call EXCEPT !.pc = "done", !.thrownAt = "handler", !.thrown = error,
                                    !.outcome = "resolved", !.returned = "undefined",
                                    !.res = catch(call.res, error)]
             ELSE [call EXCEPT !.pc = "done", !.thrownAt = "handler", !.thrown = error,
                               !.outcome = "rejected", !.err = error]
  /\ UNCHANGED <<cfg, inflight, jar, rnd, issued, log>>

(****************************** the client **********************************)

\* The cookie jar after a Set-Cookie header: each directive stores its value
\* under its name, in order.
RECURSIVE applySetCookie(_, _)
applySetCookie(cookies, directives) ==
  IF directives = <<>>
  THEN cookies
  ELSE applySetCookie([cookies EXCEPT ![Head(directives).name] = Head(directives).value],
                      Tail(directives))

\* The tokens a response hands to the client, each with the secret it goes with.
issuedBy(c) ==
  IF c.res.setCookie = <<>>
  THEN {}
  ELSE { [by |-> c.mw,
          token |-> c.res.setCookie[Len(c.res.setCookie)].value,
          secret |-> applySetCookie(c.req.cookie, c.res.setCookie)["csrfSecret"]] }

\* The request the browser sends: the Cookie header holds the jar, and there
\* is no Cookie header while the jar is empty.
JarReq(method) == Req(method, jar # NoCookies, jar)

\* The response reaches the client, which applies its Set-Cookie to the jar.
Deliver ==
  /\ call.pc = "done"
  /\ call.fromJar
  /\ jar' = applySetCookie(jar, call.res.setCookie)
  /\ issued' = issued \cup issuedBy(call)
  /\ call' = IdleCall
  /\ UNCHANGED <<cfg, inflight, rnd, log>>

\* The response is lost, or it answered a request that did not come from the jar.
Discard ==
  /\ call.pc = "done"
  /\ call' = IdleCall
  /\ UNCHANGED <<cfg, inflight, jar, rnd, issued, log>>

\* What of a completed call travels to the client.
responseOf(c) == [mw |-> c.mw, req |-> c.req, res |-> c.res]

\* The client sends its next request before the response to this one has
\* arrived: the response stays on its way.
Park ==
  /\ call.pc = "done"
  /\ call.fromJar
  /\ Cardinality(inflight) < MaxInflight
  /\ inflight' = inflight \cup {responseOf(call)}
  /\ call' = IdleCall
  /\ UNCHANGED <<cfg, jar, rnd, issued, log>>

\* One of the responses on their way arrives, in any order: the client
\* applies its Set-Cookie to the jar as the jar is then.
Arrive ==
  /\ call.pc = "idle"
  /\ \E r \in inflight :
       /\ jar' = applySetCookie(jar, r.res.setCookie)
       /\ issued' = issued \cup issuedBy(r)
       /\ inflight' = inflight \ {r}
  /\ UNCHANGED <<cfg, rnd, log, call>>

\* A second signing key, which the instance does not use.
OtherKey == "k2"

\* Token cookie values the client has seen.
KnownTokens == ({jar[cfg.tokenKey]} \cup {i.token : i \in issued}) \ {Undefined}

\* A token of the client's own making, from a secret of its own making.
OwnToken == Raw(TokenStr(0, 0, 0))

\* What can be made of a known cookie value without the signing key: one
\* character of the token changed, the signature damaged or cut short, the
\* signature removed, a signature under another key.
Tampered(v) ==
  { [v EXCEPT !.val.id = 0],
    [v EXCEPT !.sig = [present |-> TRUE, of |-> v.val, key |-> "garbage"]],
    [val |-> v.val, sig |-> NoSig, enc |-> FALSE],
    [v EXCEPT !.sig = [present |-> TRUE, of |-> v.val, key |-> OtherKey]] }

\* Values of the token cookie: the known ones, what can be made of the one in
\* the jar, no cookie, the empty string, 'invalid-token', and tokens of the
\* client's own making.
TokenValues ==
  KnownTokens \cup (IF jar[cfg.tokenKey] = Undefined THEN {} ELSE Tampered(jar[cfg.tokenKey]))
    \cup {Undefined, Raw(EmptyStr), Raw(PlainStr), OwnToken, sign(OwnToken, OtherKey)}

\* Values of the secret cookie: the secrets the client has seen, one of its
\* own making, the empty string, or no cookie.
SecretValues ==
  ({jar["csrfSecret"]} \cup {i.secret : i \in issued})
    \cup {Undefined, Raw(EmptyStr), Raw(SecretStr(0))}

\* Any request to a csrf route: any method, a string or not, without a Cookie
\* header or with any pair of cookie values.
CsrfRequests ==
  {Req(m, FALSE, NoCookies) : m \in Methods \cup {NoMethod}}
    \cup { Req(m, TRUE, [NoCookies EXCEPT ![cfg.tokenKey] = t, !["csrfSecret"] = s]) :
             m \in Methods \cup {NoMethod}, t \in TokenValues, s \in SecretValues }

\* Any request to a setup route: with or without a Cookie header, with a method
\* that is a string or not; of the cookies setup reads nothing but the secret.
SetupRequests ==
  {Req(m, FALSE, NoCookies) : m \in {"GET", "POST", NoMethod}}
    \cup { Req(m, TRUE, [NoCookies EXCEPT !["csrfSecret"] = s, !["csrfsecret"] = l]) :
             m \in {"GET", "POST", NoMethod}, s \in SecretValues, l \in SecretValues }

\* The two ways a wrapped function is called with a request.
ArgsOf(req) == {ApiArgs(req), ContextArgs(req)}

(***************************** specification ********************************)

Init ==
  /\ cfg \in {nextCsrf(u) : u \in UserOptions}
  /\ jar = NoCookies
  /\ rnd = 0
  /\ issued = {}
  /\ log = <<>>
  /\ call = IdleCall
  /\ inflight = {}

ClientSetup ==
  call.pc = "idle" /\ \E m \in {"GET", "POST"} : \E args \in ArgsOf(JarReq(m)) : setup(args, TRUE)

ClientCsrf == call.pc = "idle" /\ \E m \in Methods : csrf(JarReq(m), TRUE)

AnySetup ==
  call.pc = "idle" /\ \E req \in SetupRequests : \E args \in ArgsOf(req) : setup(args, FALSE)

StepFails ==
  call.pc = "idle" /\ \E req \in CsrfRequests : \E error \in StepErrors : csrfThrows(req, error)

AnyCsrf == call.pc = "idle" /\ \E req \in CsrfRequests : csrf(req, FALSE)

HandlerFails == \E error \in HandlerErrors : HandlerThrow(error)

Next ==
  \/ ClientSetup
  \/ ClientCsrf
  \/ AnySetup
  \/ AnyCsrf
  \/ HandlerReturn
  \/ HandlerFails
  \/ Deliver
  \/ Discard

Spec == Init /\ [][Next]_vars

\* The program when the steps of csrf may raise something unexpected.
NextFaulty ==
  \/ Next
  \/ StepFails

SpecFaulty == Init /\ [][NextFaulty]_vars

\* The program with a client that has several requests under way at a time.
\* Its requests are page loads through setup and protected requests to csrf,
\* each with the jar as it is when the request is sent.
ConcurrentSetup == call.pc = "idle" /\ setup(ApiArgs(JarReq("GET")), TRUE)

ConcurrentCsrf == call.pc = "idle" /\ \E m \in {"POST", "PUT"} : csrf(JarReq(m), TRUE)

NextConcurrent ==
  \/ ConcurrentSetup
  \/ ConcurrentCsrf
  \/ HandlerReturn
  \/ Deliver
  \/ Park
  \/ Arrive

SpecConcurrent == Init /\ [][NextConcurrent]_vars

(******************************** claims ************************************)

\* The call in progress is one of csrf, with a string method outside the
\* exempt set.
Protected ==
  /\ call.mw = "csrf"
  /\ call.req.method # NoMethod
  /\ call.req.method \notin cfg.ignoredMethods

\* The decoded token and secret cookies of the request in progress.
ReqToken == decode(call.req.cookie[cfg.tokenKey])
ReqSecret == decode(call.req.cookie["csrfSecret"])

\* The token of the request in progress with its signature taken off, when a
\* signing key is configured.
ReqUnsigned == IF cfg.secret # NoKey THEN unsign(ReqToken, cfg.secret) ELSE ReqToken

\* Every check of csrf passes on the request in progress.
AllChecksPass ==
  /\ call.req.hasCookie
  /\ ~Falsy(ReqToken)
  /\ ~Falsy(ReqSecret)
  /\ cfg.secret # NoKey => ~Falsy(unsign(ReqToken, cfg.secret))
  /\ verify(ReqSecret, ReqUnsigned)

\* csrf answered the request in progress from one of its own checks.
RejectedByCheck ==
  call.thrownAt \in {"method", "cookie", "token", "secret", "signature", "verify"}

\* C1: on a request with a string method outside the exempt set, csrf invokes
\* the handler only if a cookie header is present, the token and the secret
\* cookie are non-empty, the token unsigns under the configured key and
\* verify(secret, token) is true; when a check fails the handler is not invoked.
C1_HandlerOnlyAfterAllChecks ==
  Protected =>
    /\ call.handlerCalls > 0 => AllChecksPass
    /\ ~AllChecksPass => call.handlerCalls = 0 /\ RejectedByCheck

C1_Witness ==
  /\ Protected
  /\ call.handlerCalls = 1
  /\ cfg.secret # NoKey
  /\ ~call.fromJar

\* The cookies a client holds that took exactly the Set-Cookie of one setup.
CookiesOf(i) == [NoCookies EXCEPT ![cfg.tokenKey] = i.token, !["csrfSecret"] = i.secret]

\* The request in progress carries exactly the two cookies of one setup.
CarriesSetupCookies ==
  /\ call.req.hasCookie
  /\ \E i \in issued : i.by = "setup" /\ call.req.cookie = CookiesOf(i)

\* C2: a request with a string method outside the exempt set that carries
\* exactly the two cookies one setup of the instance emitted passes: the
\* handler is invoked, csrf writes no rejection, and the Set-Cookie header
\* holds one directive, for the token cookie. The two cookies of every setup,
\* whatever request it ran on, pass the checks of csrf.
C2_SetupCookiesPass ==
  /\ (Protected /\ CarriesSetupCookies) =>
        /\ call.handlerCalls = 1
        /\ ~RejectedByCheck
        /\ call.thrownAt = "none" => call.res.status = 0 /\ call.res.body = "none"
        /\ Len(call.res.setCookie) = 1
        /\ call.res.setCookie[1].name = cfg.tokenKey
  /\ call.mw = "setup" =>
        csrfCheck(cfg, Req("PUT", TRUE, applySetCookie(NoCookies, call.res.setCookie))) = "valid"

C2_Witness ==
  /\ Protected
  /\ CarriesSetupCookies
  /\ call.req.method = "POST"
  /\ cfg.secret # NoKey
  /\ call.pc = "done"
  /\ call.thrownAt = "none"

\* The secret cookie a setup request carries.
ReceivedSecret == IF call.req.hasCookie THEN ReqSecret ELSE Undefined

\* C3: setup on a request that carries a non-empty csrfSecret cookie emits
\* that value again and generates no secret; it generates one only when the
\* cookie is absent or empty.
C3_SecretPreserved ==
  call.mw = "setup" =>
    /\ ~Falsy(ReceivedSecret) =>
         /\ ~call.newSecret
         /\ decode(call.res.setCookie[1].value) = ReceivedSecret
    /\ call.newSecret => Falsy(ReceivedSecret)

\* C4: every token an earlier setup handed to the client is accepted by csrf
\* together with the secret cookie the jar holds now.
C4_EarlierTokensStillAccepted ==
  \A i \in issued :
    (i.by = "setup" /\ jar["csrfSecret"] # Undefined) =>
      csrfCheck(cfg, Req("PUT", TRUE,
        [NoCookies EXCEPT ![cfg.tokenKey] = i.token, !["csrfSecret"] = jar["csrfSecret"]])) = "valid"

\* The request in progress fails one of the checks of csrf.
SomeCheckFails ==
  \/ ~call.req.hasCookie
  \/ Falsy(ReqToken)
  \/ Falsy(ReqSecret)
  \/ cfg.secret # NoKey /\ Falsy(unsign(ReqToken, cfg.secret))
  \/ ~verify(ReqSecret, ReqUnsigned)

\* C5: on a request with a string method outside the exempt set, each failing
\* check (no cookie header, token cookie missing or empty, secret cookie
\* missing or empty, signature invalid, token not verifying) is answered with
\* status 403 and the configured message, 'Invalid CSRF token' by default.
C5_RejectionIs403WithMessage ==
  (Protected /\ SomeCheckFails) =>
    /\ call.res.status = 403
    /\ call.res.body = cfg.csrfErrorMessage
    /\ cfg.csrfErrorMessage # "Custom CSRF error" => call.res.body = "Invalid CSRF token"

C5_Witness ==
  /\ Protected
  /\ call.req.hasCookie
  /\ ~Falsy(ReqToken)
  /\ ~Falsy(ReqSecret)
  /\ call.thrownAt = "verify"
  /\ call.res.body = "Custom CSRF error"

\* C6: with a signing key configured, a request with a string method outside
\* the exempt set whose token cookie does not unsign under the key is answered
\* with 403 and the handler is not invoked, whatever the secret cookie is; with
\* both cookies present it is the signature check that rejects, also when the
\* token under the signature verifies against the secret.
C6_BadSignatureRejected ==
  (Protected /\ cfg.secret # NoKey /\ call.req.hasCookie /\ Falsy(unsign(ReqToken, cfg.secret))) =>
    /\ call.handlerCalls = 0
    /\ call.res.status = 403
    /\ (~Falsy(ReqToken) /\ ~Falsy(ReqSecret)) => call.thrownAt = "signature"

C6_Witness ==
  /\ Protected
  /\ cfg.secret # NoKey
  /\ call.req.hasCookie
  /\ ReqToken.sig.present
  /\ Falsy(unsign(ReqToken, cfg.secret))
  /\ verify(ReqSecret, Raw(ReqToken.val))
  /\ call.thrownAt = "signature"

\* C7: a request whose method is in the exempt set reaches the handler exactly
\* once whatever its cookies are; no check of csrf rejects it and csrf sets
\* no cookie.
C7_ExemptMethodDelegates ==
  (call.mw = "csrf" /\ call.req.method \in cfg.ignoredMethods) =>
    /\ call.handlerCalls = 1
    /\ ~RejectedByCheck
    /\ call.thrownAt = "none" => call.res.status = 0 /\ call.res.body = "none"
    /\ call.res.setHeaderCalls = 0
    /\ call.res.setCookie = <<>>

C7_Witness ==
  /\ call.mw = "csrf"
  /\ call.req.method = "POST"
  /\ call.req.method \in cfg.ignoredMethods
  /\ ~call.req.hasCookie
  /\ call.pc = "done"
  /\ call.outcome = "resolved"
  /\ call.thrownAt = "none"

\* csrf validated the request in progress.
Validated == Protected /\ call.handlerCalls = 1

\* C8: after a successful validation the response carries one Set-Cookie
\* directive, written once, for the token cookie; its value is a new token
\* that verifies against the secret of the request, signed if and only if a
\* signing key is configured; the secret cookie is neither emitted nor changed.
C8_RotationSetsTokenOnly ==
  Validated =>
    /\ call.res.setHeaderCalls = 1
    /\ Len(call.res.setCookie) = 1
    /\ call.res.setCookie[1].name = cfg.tokenKey
    /\ call.res.setCookie[1].name # "csrfSecret"
    /\ call.res.setCookie[1].opts = cfg.cookieOptions
    /\ decode(call.res.setCookie[1].value) # ReqToken
    /\ decode(call.res.setCookie[1].value).sig.present <=> cfg.secret # NoKey
    /\ verify(ReqSecret,
              IF cfg.secret # NoKey
              THEN unsign(decode(call.res.setCookie[1].value), cfg.secret)
              ELSE decode(call.res.setCookie[1].value))
    /\ applySetCookie(call.req.cookie, call.res.setCookie)["csrfSecret"]
         = call.req.cookie["csrfSecret"]

C8_Witness ==
  /\ Validated
  /\ cfg.secret # NoKey
  /\ call.fromJar
  /\ call.pc = "done"

\* C9: of the successful validations against one secret, no two emit the
\* same token cookie value, and none emits the value its request presented.
C9_RotationNeverReuses ==
  \A i \in 1..Len(log) :
    /\ decode(log[i].emitted) # decode(log[i].presented)
    /\ \A j \in 1..Len(log) :
         (i < j /\ log[i].secret = log[j].secret) =>
           decode(log[i].emitted) # decode(log[j].emitted)

C9_Witness ==
  /\ Len(log) >= 2
  /\ log[1].secret = log[2].secret
  /\ log[2].presented = log[1].emitted

\* C10: an error of the wrapped handler leaves csrf as it was raised: the
\* promise of the wrapped function rejects with it and csrf writes neither a
\* status nor a body.
C10_HandlerErrorPropagates ==
  (call.mw = "csrf" /\ call.thrownAt = "handler") =>
    /\ call.outcome = "rejected"
    /\ call.res.status = 0
    /\ call.res.body = "none"

\* C11: whatever the request and the configuration, once the handler has
\* terminated the call of csrf has completed without raising to its caller,
\* and either the handler was delegated to or a response with a status and a
\* JSON message was written.
C11_CsrfNeverRaises ==
  (call.mw = "csrf" /\ call.pc = "done") =>
    /\ call.outcome = "resolved"
    /\ call.handlerCalls = 1 \/ (call.res.status # 0 /\ call.res.body # "none")

\* A step of csrf between the cookie header check and the handler raised
\* something unexpected on the request in progress.
StepRaised == call.mw = "csrf" /\ call.thrownAt = "step"

Answered ==
  /\ call.mw = "csrf"
  /\ call.thrownAt # "none"
  /\ call.outcome = "resolved"

\* C13: the status of the response csrf writes for a raised condition is 403
\* when one of its own checks raised it, the status the condition carries
\* when it carries one, and 500 when it carries none.
C13_StatusOfRejection ==
  Answered =>
    /\ RejectedByCheck => call.res.status = 403
    /\ call.thrown.status # 0 => call.res.status = call.thrown.status
    /\ call.thrown.status = 0 => call.res.status = 500

C13_Witness ==
  /\ Answered
  /\ ~RejectedByCheck
  /\ call.thrown.status = 418
  /\ call.res.status = 418

\* The token of a Set-Cookie directive with its signature taken off, when a
\* signing key is configured.
UnsignedOf(directive) ==
  IF cfg.secret # NoKey
  THEN unsign(decode(directive.value), cfg.secret)
  ELSE decode(directive.value)

\* C14: every call of setup writes the Set-Cookie header once, with two
\* directives: csrfSecret first, the token cookie second, both with the
\* configured cookie attributes, and the token of the second verifies against
\* the secret of the first.
C14_SetupWritesTwoCookiesOnce ==
  call.mw = "setup" =>
    /\ call.res.setHeaderCalls = 1
    /\ Len(call.res.setCookie) = 2
    /\ call.res.setCookie[1].name = "csrfSecret"
    /\ call.res.setCookie[2].name = cfg.tokenKey
    /\ call.res.setCookie[1].opts = cfg.cookieOptions
    /\ call.res.setCookie[2].opts = cfg.cookieOptions
    /\ ~Falsy(decode(call.res.setCookie[1].value))
    /\ verify(decode(call.res.setCookie[1].value), UnsignedOf(call.res.setCookie[2]))

C14_Witness ==
  /\ call.mw = "setup"
  /\ call.pc = "done"
  /\ cfg.tokenKey = "MY-CSRF-TOKEN"
  /\ cfg.cookieOptions # defaultOptions.cookieOptions
  /\ call.res.setCookie[2].name = "MY-CSRF-TOKEN"
  /\ call.req.hasCookie

\* C15: when setup has invoked the handler the two cookies are written, the
\* handler got the request and the response of the call, and as long as the
\* handler has not completed the wrapped function has not completed either.
C15_SetupWritesThenAwaitsHandler ==
  (call.mw = "setup" /\ call.handlerCalls > 0) =>
    /\ call.res.setHeaderCalls = 1
    /\ Len(call.res.setCookie) = 2
    /\ call.handlerArgs = <<"req", "res">>
    /\ call.req = call.args[1].req
    /\ call.pc = "handler" => call.outcome = "pending"
    /\ call.outcome # "pending" => call.pc = "done"

C15_Witness ==
  /\ call.mw = "setup"
  /\ call.pc = "handler"
  /\ call.handlerCalls = 1
  /\ call.outcome = "pending"
  /\ Len(call.res.setCookie) = 2

\* C16: setup rejects no request: whatever the method and the cookies of the
\* request, it writes neither a status nor a body, none of its steps raises,
\* the Set-Cookie header is all it writes, and the handler is invoked once.
C16_SetupNeverRejects ==
  call.mw = "setup" =>
    /\ call.res.status = 0
    /\ call.res.body = "none"
    /\ call.thrownAt \in {"none", "handler"}
    /\ call.res.setHeaderCalls = 1
    /\ call.handlerCalls = 1

C16_Witness ==
  /\ call.mw = "setup"
  /\ call.pc = "done"
  /\ call.outcome = "resolved"
  /\ call.req.method = NoMethod
  /\ call.req.hasCookie
  /\ Falsy(ReqSecret)
  /\ call.handlerCalls = 1

\* C17: what the handler inside setup fails with is what the promise of the
\* wrapped function rejects with, and setup writes no response for it.
C17_SetupPropagatesHandlerFailure ==
  (call.mw = "setup" /\ call.thrownAt = "handler") =>
    /\ call.outcome = "rejected"
    /\ call.err = call.thrown
    /\ call.res.status = 0
    /\ call.res.body = "none"

C17_Witness ==
  /\ call.mw = "setup"
  /\ call.thrownAt = "handler"
  /\ call.thrown = HttpError(418, "teapot")
  /\ call.err = HttpError(418, "teapot")

\* The decoded values of the two cookies setup emitted.
EmittedSecret == decode(call.res.setCookie[1].value)
EmittedToken == decode(call.res.setCookie[2].value)

\* C18: the token cookie value setup emits is sign(token, key) when a signing
\* key is configured and the bare token when none is, token being one that
\* verifies against the emitted secret; without a key both cookies are still
\* emitted.
C18_SetupSignsIffKey ==
  call.mw = "setup" =>
    /\ Len(call.res.setCookie) = 2
    /\ cfg.secret # NoKey =>
         /\ EmittedToken = sign(Raw(EmittedToken.val), cfg.secret)
         /\ verify(EmittedSecret, Raw(EmittedToken.val))
    /\ cfg.secret = NoKey =>
         /\ ~EmittedToken.sig.present
         /\ verify(EmittedSecret, EmittedToken)

C18_Witness ==
  /\ call.mw = "setup"
  /\ cfg.secret = NoKey
  /\ Len(call.res.setCookie) = 2
  /\ ~EmittedToken.sig.present
  /\ call.res.setCookie[2].name = "XSRF-TOKEN"

C18_WitnessSigned ==
  /\ call.mw = "setup"
  /\ cfg.secret # NoKey
  /\ EmittedToken.sig.present

\* C19: when setup is called with one context object, the handler receives
\* that context object, and what the handler returns is what the wrapped
\* function returns.
C19_ContextHandlerGetsContext ==
  (call.mw = "setup" /\ ~isApi(call.args) /\ call.handlerCalls > 0) =>
    /\ call.handlerArgs = <<"context">>
    /\ (call.pc = "done" /\ call.outcome = "resolved") => call.returned = call.result

\* The request inside the arguments of the call in progress: the first of two
\* arguments, the req of a context.
RequestOfCall == call.args[1].req

\* C20: setup called with two arguments reads the cookies of the first and
\* writes Set-Cookie on the second; called with one context it reads the
\* cookies of context.req and writes Set-Cookie on context.res; either way it
\* emits the csrfSecret cookie and the token cookie, and a secret it finds in
\* the request it reads is the secret it emits.
C20_SetupShapeByArgumentCount ==
  call.mw = "setup" =>
    /\ Len(call.args) = 2 => call.args[1].kind = "req" /\ call.wroteTo = "args[1]"
    /\ Len(call.args) = 1 => call.args[1].kind = "context" /\ call.wroteTo = "args[0].res"
    /\ call.req = RequestOfCall
    /\ Len(call.res.setCookie) = 2
    /\ call.res.setCookie[1].name = "csrfSecret"
    /\ call.res.setCookie[2].name = cfg.tokenKey
    /\ ~Falsy(getSecret(RequestOfCall, "csrfSecret")) =>
         EmittedSecret = getSecret(RequestOfCall, "csrfSecret")

C20_Witness ==
  /\ call.mw = "setup"
  /\ Len(call.args) = 1
  /\ call.wroteTo = "args[0].res"
  /\ RequestOfCall.hasCookie
  /\ ~Falsy(getSecret(RequestOfCall, "csrfSecret"))
  /\ EmittedSecret = getSecret(RequestOfCall, "csrfSecret")

\* The signing keys an instance may be configured with, none included.
Keys == {NoKey, "k1", OtherKey}

\* The configuration of the instance with another signing key.
reKeyed(k) == [cfg EXCEPT !.secret = k]

\* A protected request that carries a token cookie and a secret cookie.
ProtectedReq(token, secret) ==
  Req("PUT", TRUE, [NoCookies EXCEPT ![cfg.tokenKey] = token, !["csrfSecret"] = secret])

\* C21: a token cookie the instance issued, by setup or by rotation, is
\* rejected with 403 by csrf under every other signing key configuration:
\* another key, a key when the token was issued without one, no key when the
\* token was issued signed; it is rejected also with the secret it was issued
\* for. (What the client has received changes only when a response arrives,
\* so the tokens are looked at between two calls.)
C21_KeyChangeInvalidates ==
  call.pc = "idle" =>
    \A i \in issued : \A k \in Keys \ {cfg.secret} :
      /\ csrfCheck(reKeyed(k), ProtectedReq(i.token, i.secret)) \in {"signature", "verify"}
      /\ csrfCheck(reKeyed(k), ProtectedReq(i.token, jar["csrfSecret"]))
           \in {"secret", "signature", "verify"}
      /\ catch(NewRes, HttpError(403, reKeyed(k).csrfErrorMessage)).status = 403

C21_Witness ==
  \E i \in issued :
    /\ i.by = "csrf"
    /\ cfg.secret = "k1"
    /\ csrfCheck(cfg, ProtectedReq(i.token, i.secret)) = "valid"
    /\ csrfCheck(reKeyed(OtherKey), ProtectedReq(i.token, i.secret)) = "signature"
    /\ csrfCheck(reKeyed(NoKey), ProtectedReq(i.token, i.secret)) = "verify"

\* csrf accepts a protected request with this token and this secret cookie.
Accepted(token, secret) == csrfCheck(cfg, ProtectedReq(token, secret)) = "valid"

\* C22: whatever validations and rotations have happened since, every token
\* issued for a secret, by setup or by a rotation, is accepted when presented
\* with that secret: the tokens the client received, the tokens presented to
\* and the tokens emitted by every successful validation. With the secret of
\* another issue it is not accepted. (Looked at between two calls, after
\* each validation and each arrival of a response.)
C22_TokensNotSingleUse ==
  call.pc = "idle" =>
    /\ \A i \in issued : Accepted(i.token, i.secret)
    /\ \A n \in 1..Len(log) :
         /\ Accepted(log[n].presented, log[n].secret)
         /\ Accepted(log[n].emitted, log[n].secret)
    /\ \A i, j \in issued : decode(i.secret) # decode(j.secret) => ~Accepted(i.token, j.secret)

C22_Witness ==
  \E i \in issued :
    /\ i.by = "setup"
    /\ Len(log) >= 2
    /\ log[1].secret = decode(i.secret)
    /\ log[2].secret = decode(i.secret)
    /\ log[1].presented = i.token
    /\ log[2].presented = log[1].emitted
    /\ Accepted(i.token, i.secret)
    /\ \E j \in issued : j.by = "csrf" /\ j.secret = i.secret /\ j.token # i.token

\* The request in progress is one to csrf whose method is missing or no string.
MethodUnreadable == call.mw = "csrf" /\ call.req.method = NoMethod

\* The cookies of the request in progress pass every cookie check of csrf.
CarriesValidPair ==
  /\ call.req.hasCookie
  /\ Accepted(call.req.cookie[cfg.tokenKey], call.req.cookie["csrfSecret"])

\* C23: a request whose method is missing or no string is answered by csrf
\* with 403 and the configured message and the handler is not invoked,
\* whatever the exempt set and whatever cookies it carries, a valid pair
\* included.
C23_UnreadableMethodIs403 ==
  MethodUnreadable =>
    /\ call.res.status = 403
    /\ call.res.body = cfg.csrfErrorMessage
    /\ call.handlerCalls = 0

C23_Witness ==
  /\ MethodUnreadable
  /\ CarriesValidPair
  /\ cfg.ignoredMethods # {}
  /\ call.res.status = 403
  /\ call.res.body = "Custom CSRF error"

\* No request of the client is under way and every response has been applied.
Quiet == call.pc = "idle" /\ inflight = {}

\* C24: once every response to the requests the client had under way has
\* been applied to the jar, in whatever order, the token cookie of the jar
\* verifies against its secret cookie: csrf accepts the next protected
\* request of the client.
C24_JarConsistentWhenQuiet ==
  (Quiet /\ jar # NoCookies) => Accepted(jar[cfg.tokenKey], jar["csrfSecret"])

\* The issue of the token cookie the jar holds: the response that handed it
\* to the client, with the secret that response emitted or its request carried.
IssueInJar == {i \in issued : i.token = jar[cfg.tokenKey]}

\* C24, amended: once every response has been applied, in whatever order,
\* the token cookie of the jar comes from one response and verifies against
\* the secret of that exchange; csrf accepts the next protected request of
\* the client exactly when that is the secret the jar holds, which it is not
\* when the response of a setup replaced the secret while the rotation that
\* was applied last was under way.
C24_JarTokenFollowsItsOwnSecret ==
  (Quiet /\ jar # NoCookies) =>
    /\ IssueInJar # {}
    /\ \A i \in IssueInJar :
         /\ Accepted(i.token, i.secret)
         /\ Accepted(jar[cfg.tokenKey], jar["csrfSecret"])
              <=> decode(jar["csrfSecret"]) = decode(i.secret)
         /\ i.by = "setup" => Accepted(jar[cfg.tokenKey], jar["csrfSecret"])

C24_Witness ==
  /\ Quiet
  /\ jar # NoCookies
  /\ ~Accepted(jar[cfg.tokenKey], jar["csrfSecret"])
  /\ \E i \in IssueInJar : i.by = "csrf" /\ Accepted(i.token, i.secret)
  /\ \E j \in issued : j.by = "setup" /\ j.secret = jar["csrfSecret"]

\* What csrf decided on the request in progress.
Decision ==
  IF call.handlerCalls = 1 THEN "accept"
  ELSE IF RejectedByCheck THEN "reject"
  ELSE "none"

\* The decision of csrf as a function of the configuration and the request.
DecisionFor(c, req) == IF csrfCheck(c, req) \in {"ignored", "valid"} THEN "accept" ELSE "reject"

\* The status csrf itself answers with, 0 when it writes none.
StatusFor(c, req) == IF DecisionFor(c, req) = "reject" THEN 403 ELSE 0

\* C25: whatever requests were processed before, for this client or for
\* others, the decision of csrf on a request and the status it answers with
\* are those the configuration, the method and the cookies of the request
\* determine; and no step of setup or csrf changes what the server holds, the
\* configuration of the instance.
C25_DecisionDependsOnRequestOnly ==
  /\ [](call.mw = "csrf" =>
         /\ Decision = DecisionFor(cfg, call.req)
         /\ call.thrownAt # "handler" => call.res.status = StatusFor(cfg, call.req))
  /\ [][cfg' = cfg]_vars

\* The same request as one validated before, processed after other requests.
C25_Witness ==
  /\ call.mw = "csrf"
  /\ Decision = "accept"
  /\ Protected
  /\ ~call.fromJar
  /\ Len(log) >= 3
  /\ log[1].presented = call.req.cookie[cfg.tokenKey]
  /\ log[1].secret = ReqSecret
  /\ log[2].presented # log[1].presented

\* C26 as stated: a request whose method is missing or no string goes on to
\* the cookie header check and the checks after it, as a request with a method
\* outside the exempt set does: without Cookie header it is the cookie header
\* check that rejects it, and with a valid secret and token pair it reaches
\* the handler.
C26_UnreadableMethodProceeds ==
  MethodUnreadable =>
    /\ call.thrownAt # "method"
    /\ ~call.req.hasCookie => call.thrownAt = "cookie"
    /\ CarriesValidPair => call.handlerCalls = 1

\* C26, amended: the method check ends the run of a request whose method is
\* missing or no string: the error is thrown there, whatever cookies the
\* request carries, no later check is reached, no token is rotated and the
\* handler is not reached, also with a valid secret and token pair.
C26_UnreadableMethodStopsAtMethodCheck ==
  MethodUnreadable =>
    /\ call.thrownAt = "method"
    /\ call.pc = "done"
    /\ call.handlerCalls = 0
    /\ call.res.setHeaderCalls = 0
    /\ call.res.setCookie = <<>>

C26_Witness ==
  /\ MethodUnreadable
  /\ CarriesValidPair
  /\ call.thrownAt = "method"
  /\ call.res.setHeaderCalls = 0
  /\ call.handlerCalls = 0

\* The request in progress is a protected one the client sent from its jar,
\* which holds what the responses it received so far left in it: the secret
\* of its setup and the token issued to it last.
ChainStep == Protected /\ call.fromJar /\ call.req.hasCookie

\* C27: every protected request the client sends with the secret cookie and
\* the token cookie its jar holds after a setup, the token being the one
\* issued to it last by setup or by a rotation, is accepted, and the token the
\* rotation emits is accepted together with the secret the request carried;
\* the secret in the jar stays the one of the request.
C27_ChainOfRotationsAccepted ==
  ChainStep =>
    /\ call.handlerCalls = 1
    /\ Len(call.res.setCookie) = 1
    /\ Accepted(call.res.setCookie[1].value, call.req.cookie["csrfSecret"])
    /\ jar["csrfSecret"] = call.req.cookie["csrfSecret"]
    /\ Accepted(applySetCookie(jar, call.res.setCookie)[cfg.tokenKey],
                applySetCookie(jar, call.res.setCookie)["csrfSecret"])

\* The third request of a chain: it presents what the second rotation
\* emitted, which presented what the first emitted.
C27_Witness ==
  /\ ChainStep
  /\ call.pc = "done"
  /\ cfg.secret # NoKey
  /\ Len(log) = 3
  /\ log[2].presented = log[1].emitted
  /\ log[3].presented = log[2].emitted
  /\ call.req.cookie[cfg.tokenKey] = log[2].emitted
  /\ log[3].secret = log[1].secret

\* C28: from the moment the handler of a validated request is invoked, the
\* Set-Cookie header with the rotated token is on the response: while the
\* handler runs, after it returned, and after it failed and csrf answered
\* the failure.
C28_RotationWrittenBeforeHandler ==
  Validated =>
    /\ Len(log) > 0
    /\ call.res.setCookie =
         << serialize(cfg.tokenKey, decode(log[Len(log)].emitted), cfg.cookieOptions) >>
    /\ call.pc = "handler" => call.res.setHeaderCalls = 1 /\ call.outcome = "pending"

C28_Witness ==
  /\ Validated
  /\ call.thrownAt = "handler"
  /\ call.res.status = 500
  /\ Len(call.res.setCookie) = 1
  /\ call.res.setCookie[1].value = log[Len(log)].emitted

\* C29: a request one of the checks of csrf rejects (method, cookie header,
\* token, secret, signature, verify) gets no Set-Cookie header: the response
\* issues, rotates or clears neither the token cookie nor the secret cookie,
\* so a client that applies it keeps the cookies it sent.
C29_RejectionSetsNoCookie ==
  (call.mw = "csrf" /\ RejectedByCheck) =>
    /\ call.res.setHeaderCalls = 0
    /\ call.res.setCookie = <<>>
    /\ applySetCookie(call.req.cookie, call.res.setCookie) = call.req.cookie
    /\ issuedBy(call) = {}

C29_Witness ==
  /\ call.mw = "csrf"
  /\ call.thrownAt = "verify"
  /\ ~Falsy(ReqToken)
  /\ ~Falsy(ReqSecret)
  /\ call.res.status = 403
  /\ call.res.setHeaderCalls = 0

====
